---- MODULE Spec2Model ----
(***************************************************************************)
(* Intercom connector: the checkpointed pagination walk of                 *)
(* IntercomConnector._fetch_tickets, the page request _get_tickets, the    *)
(* credential loader and the checkpointed entry points.                    *)
(*                                                                         *)
(* The connector is single-threaded.  _fetch_tickets is a generator: its   *)
(* body runs only while the consumer pulls, and it is suspended at the two *)
(* yield statements.  pc is the position of the generator's frame.         *)
(***************************************************************************)
EXTENDS Integers, Sequences, FiniteSets, TLC

\* ---------------------------------------------------------------- bounds
MaxCursor == 1
MaxItems == 3
MaxBatchSize == 2
\* Conversation parts of one raw conversation.
MaxParts == 2

\* ------------------------------------------------------------- constants
\* Optional[str] = None: the absent cursor (falsy in `if starting_after:`).
NoCursor == 0
\* self.intercom_api_token = None after construction.
NoToken == "None"
\* start_time: Optional[datetime] = None
NoTime == 0

Cursors == 0..MaxCursor
Tokens == 1..MaxCursor
\* ticket["updated_at"] and start_time are compared, nothing else: an item is
\* older than the bound, as old, or newer.  start_time ranges over the same
\* times, so each case occurs.
Times == {1, 2}
BatchSizes == 1..MaxBatchSize
StartTimes == {NoTime} \cup Times

\* response["pages"]["next"]: None/absent, a dict without the key
\* "starting_after", or a dict carrying the token of the next page.
NoNext == [present |-> FALSE, key |-> FALSE, tok |-> NoCursor]
NextWithoutKey == [present |-> TRUE, key |-> FALSE, tok |-> NoCursor]
NextWith(t) == [present |-> TRUE, key |-> TRUE, tok |-> t]

\* A page not requested so far: the provider has not yet shown its content.
Unfetched == [fetched |-> FALSE, conversations |-> <<>>, next |-> NoNext]

RECURSIVE SeqsUpTo(_, _)
SeqsUpTo(S, n) ==
    IF n = 0 THEN {<<>>}
    ELSE LET shorter == SeqsUpTo(S, n - 1)
         IN shorter \cup {Append(s, x) : s \in {q \in shorter : Len(q) = n - 1}, x \in S}

\* The pages the provider may answer with for cursor c.  Tokens are opaque,
\* so the pages of a listing are named in order: page c is followed by page
\* c + 1 or is the last one, and the listing ends at the latest with page
\* MaxCursor.
NextInfos(c) ==
    {NoNext, NextWithoutKey} \cup {NextWith(t) : t \in {c + 1} \cap Tokens}

\* A page of at most n conversations (n is far below per_page = 50).
Pages(c, n) ==
    {[fetched |-> TRUE, conversations |-> items, next |-> n2] :
        items \in SeqsUpTo(Times, n), n2 \in NextInfos(c)}

VARIABLES
    intercom_api_token,   \* self.intercom_api_token
    workspace_id,         \* self.workspace_id
    batch_size,           \* self.batch_size
    tickets_cursor,       \* checkpoint.tickets_cursor
    has_more,             \* checkpoint.has_more
    start_time,           \* _fetch_tickets argument
    listing,              \* the provider: cursor -> page, as far as shown
    pc,                   \* position of the generator frame
    starting_after,       \* local of _fetch_tickets
    response,             \* local of _fetch_tickets
    idx,                  \* position of `for ticket in tickets` (1-based)
    doc_batch,            \* local of _fetch_tickets
    requests,             \* cursors sent by requests.get in this run
    emitted,              \* batches yielded in this run
    raised,               \* exception that ended the last call, or "none"
    entry,                \* the method the consumer called last, and the
                          \* credential mapping if it was load_credentials
    run,                  \* "none", "first", "resume"
    seed,                 \* checkpoint.tickets_cursor read at line 143
    prev,                 \* the first run as it ended, kept for the resume
    pulls,                \* next() calls of the consumer on this generator
    end_time,             \* `end` of the last checkpointed call
    ticket,               \* raw conversation given to _ticket_to_document
    document              \* the Document it returned

vars == <<intercom_api_token, workspace_id, batch_size, tickets_cursor,
          has_more, start_time, listing, pc, starting_after, response, idx,
          doc_batch, requests, emitted, raised, entry, run, seed, prev,
          pulls, end_time, ticket, document>>

connector == <<intercom_api_token, workspace_id, batch_size>>
checkpoint == <<tickets_cursor, has_more>>
frame == <<starting_after, response, idx, doc_batch>>
\* What the pagination walk never touches.
transform == <<ticket, document>>

\* No conversation has been transformed.
NoTicket == [id |-> "none"]
NoDocument == [id |-> "none"]

NoPrev == [pc |-> "none", raised |-> "none", seed |-> NoCursor,
           requests |-> <<>>, emitted |-> <<>>]

\* __init__ (workspace_id given or not) and build_dummy_checkpoint.
Init ==
    /\ intercom_api_token = NoToken
    /\ workspace_id \in {"None", "ws"}
    /\ batch_size \in BatchSizes
    /\ tickets_cursor = NoCursor
    /\ has_more = TRUE
    /\ start_time = NoTime
    /\ listing = [c \in Cursors |-> Unfetched]
    /\ pc = "idle"
    /\ starting_after = NoCursor
    /\ response = Unfetched
    /\ idx = 1
    /\ doc_batch = <<>>
    /\ requests = <<>>
    /\ emitted = <<>>
    /\ raised = "none"
    /\ entry = [name |-> "none", token |-> "-", workspace |-> "-"]
    /\ run = "none"
    /\ seed = NoCursor
    /\ prev = NoPrev
    /\ pulls = 0
    /\ end_time = NoTime
    /\ ticket = NoTicket
    /\ document = NoDocument

\* The locals of a frame that does not exist (before line 142, and after
\* the generator has returned or raised).
DropFrame ==
    /\ starting_after' = NoCursor
    /\ response' = Unfetched
    /\ idx' = 1
    /\ doc_batch' = <<>>

\* No generator frame is executing or suspended.
NoFrame == pc \in {"idle", "returned", "raised", "closed"}

\* A call of a method that takes no credential mapping.
Call(name) == [name |-> name, token |-> "-", workspace |-> "-"]

\* ------------------------------------------------------- load_credentials
\* credentials.get("intercom_api_token"): missing, "", a non-string, a token.
CredTokens == {"missing", "empty", "nonstring", "tok"}
\* credentials.get("workspace_id"): missing or a workspace identifier.
CredWorkspaces == {"None", "ws"}

\* Mutant of InvalidToken: only the missing key is rejected.
InvalidToken_MissingOnly(t) == t = "missing"

\* `not intercom_api_token or not isinstance(intercom_api_token, str)`
InvalidToken(t) == t \in {"missing", "empty", "nonstring"}

\* Mutant of LoadCredentials: both fields validated before either is stored.
LoadCredentials_Atomic ==
    /\ pc = "idle"
    /\ \E t \in CredTokens, w \in CredWorkspaces :
        /\ entry' = [name |-> "load_credentials", token |-> t, workspace |-> w]
        /\ IF InvalidToken(t) \/ w = "None"
           THEN /\ raised' = "ConnectorMissingCredentialError"
                /\ UNCHANGED <<intercom_api_token, workspace_id>>
           ELSE /\ intercom_api_token' = t
                /\ workspace_id' = w
                /\ raised' = "none"
    /\ UNCHANGED <<batch_size, checkpoint, start_time, listing, pc, frame,
                   requests, emitted, run, seed, prev, pulls, end_time,
                   transform>>

LoadCredentials ==
    /\ pc = "idle"
    /\ \E t \in CredTokens, w \in CredWorkspaces :
        /\ entry' = [name |-> "load_credentials", token |-> t, workspace |-> w]
        /\ IF InvalidToken(t)
           THEN /\ raised' = "ConnectorMissingCredentialError"
                /\ UNCHANGED <<intercom_api_token, workspace_id>>
           ELSE /\ intercom_api_token' = t
                /\ workspace_id' = w
                /\ raised' = IF w = "None"
                             THEN "ConnectorMissingCredentialError"
                             ELSE "none"
    /\ UNCHANGED <<batch_size, checkpoint, start_time, listing, pc, frame,
                   requests, emitted, run, seed, prev, pulls, end_time,
                   transform>>

\* ---------------------------------------------------- _ticket_to_document
\* get_source_link: None without a workspace id, else the conversation URL.
get_source_link(c, i) ==
    IF workspace_id = "None" THEN "None" ELSE "link"

\* The ticket at position i of the page requested with cursor c.
\* Its id is its place in the listing; updated_at is the item's time.
ticket_to_document(c, i, updated_at) ==
    [id |-> <<c, i>>, doc_updated_at |-> updated_at, link |-> get_source_link(c, i)]

\* --------------------------------------------------------- _fetch_tickets
\* What a run leaves behind when the next one starts.
Ended ==
    [pc |-> pc, raised |-> raised, seed |-> seed, requests |-> requests,
     emitted |-> emitted]

\* Mutant of FetchTickets: an eager function, which runs to its first
\* request when it is called.
FetchTickets_Eager ==
    /\ NoFrame
    /\ run \in {"none", "first"}
    /\ IF run = "none"
       THEN /\ start_time' \in StartTimes
            /\ run' = "first"
            /\ prev' = prev
       ELSE /\ start_time' = start_time
            /\ run' = "resume"
            /\ prev' = Ended
    /\ entry' = Call("_fetch_tickets")
    /\ doc_batch' = <<>>
    /\ starting_after' = tickets_cursor
    /\ seed' = tickets_cursor
    /\ response' = Unfetched
    /\ idx' = 1
    /\ requests' = <<>>
    /\ emitted' = <<>>
    /\ raised' = "none"
    /\ pulls' = 0
    /\ end_time' = NoTime
    /\ pc' = "get"
    /\ UNCHANGED <<connector, checkpoint, listing, transform>>

\* The consumer calls _fetch_tickets(checkpoint, start_time): a generator
\* is created and none of its body runs.  The resume is the same poll
\* started again.
FetchTickets ==
    /\ NoFrame
    /\ run \in {"none", "first"}
    /\ IF run = "none"
       THEN /\ start_time' \in StartTimes
            /\ run' = "first"
            /\ prev' = prev
       ELSE /\ start_time' = start_time
            /\ run' = "resume"
            /\ prev' = Ended
    /\ entry' = Call("_fetch_tickets")
    /\ DropFrame
    /\ seed' = NoCursor
    /\ requests' = <<>>
    /\ emitted' = <<>>
    /\ raised' = "none"
    /\ pulls' = 0
    /\ end_time' = NoTime
    /\ pc' = "created"
    /\ UNCHANGED <<connector, checkpoint, listing, transform>>

\* The consumer's first pull: lines 142-143.
FirstPull ==
    /\ pc = "created"
    /\ pulls' = pulls + 1
    /\ doc_batch' = <<>>
    /\ starting_after' = tickets_cursor
    /\ seed' = tickets_cursor
    /\ pc' = "get"
    /\ UNCHANGED <<connector, checkpoint, start_time, listing, response, idx,
                   requests, emitted, raised, entry, run, prev, end_time,
                   transform>>

\* _get_tickets, line 117-118: no token loaded.
GetTicketsNoToken ==
    /\ pc = "get"
    /\ intercom_api_token = NoToken
    /\ raised' = "ConnectorMissingCredentialError"
    /\ pc' = "raised"
    /\ DropFrame
    /\ UNCHANGED <<connector, checkpoint, start_time, listing,
                   requests, emitted, entry, run, seed, prev, pulls,
                   end_time, transform>>

\* Mutant of GetTicketsHTTPError: the error is caught and the loop left as
\* if the listing had ended.
GetTicketsHTTPError_Swallowed ==
    /\ pc = "get"
    /\ intercom_api_token # NoToken
    /\ requests' = Append(requests, starting_after)
    /\ raised' = "HTTPError"
    /\ pc' = "after"
    /\ UNCHANGED <<connector, checkpoint, start_time, listing, frame,
                   emitted, entry, run, seed, prev, pulls,
                   end_time, transform>>

\* _get_tickets, lines 120-133: the request is sent and fails
\* (requests.get raises, or raise_for_status on a non-2xx answer).
GetTicketsHTTPError ==
    /\ pc = "get"
    /\ intercom_api_token # NoToken
    /\ requests' = Append(requests, starting_after)
    /\ raised' = "HTTPError"
    /\ pc' = "raised"
    /\ DropFrame
    /\ UNCHANGED <<connector, checkpoint, start_time, listing,
                   emitted, entry, run, seed, prev, pulls,
                   end_time, transform>>

\* The number of conversations on the pages shown so far, from cursor c on.
RECURSIVE ItemsShown(_)
ItemsShown(c) ==
    IF c > MaxCursor THEN 0
    ELSE Len(listing[c].conversations) + ItemsShown(c + 1)

\* What the provider answers for cursor c: the page it has shown before,
\* or else any page that keeps the listing within MaxItems conversations.
Answers(c) ==
    IF listing[c].fetched THEN {listing[c]}
    ELSE Pages(c, MaxItems - ItemsShown(NoCursor))

\* Mutant of GetTicketsOk: the next cursor written to the checkpoint as soon
\* as the response arrives, before the page is scanned.
GetTicketsOk_PersistsEarly ==
    /\ pc = "get"
    /\ intercom_api_token # NoToken
    /\ requests' = Append(requests, starting_after)
    /\ \E page \in Answers(starting_after) :
        /\ listing' = [listing EXCEPT ![starting_after] = page]
        /\ response' = page
        /\ tickets_cursor' = IF page.next.present /\ page.next.key
                             THEN page.next.tok
                             ELSE tickets_cursor
    /\ idx' = 1
    /\ pc' = "for"
    /\ UNCHANGED <<connector, has_more, start_time, starting_after,
                   doc_batch, emitted, raised, entry, run, seed, prev, pulls,
                   end_time, transform>>

\* _get_tickets, lines 120-134, and line 147: the page for the cursor.
\* The provider answers the same cursor with the same page; the listing
\* holds at most MaxItems conversations.
GetTicketsOk ==
    /\ pc = "get"
    /\ intercom_api_token # NoToken
    /\ requests' = Append(requests, starting_after)
    /\ \E page \in Answers(starting_after) :
        /\ listing' = [listing EXCEPT ![starting_after] = page]
        /\ response' = page
    /\ idx' = 1
    /\ pc' = "for"
    /\ UNCHANGED <<connector, checkpoint, start_time, starting_after,
                   doc_batch, emitted, raised, entry, run, seed, prev, pulls,
                   end_time, transform>>

\* Mutant of Filtered: the bound taken as exclusive.
Filtered_Exclusive(updated_at) ==
    start_time # NoTime /\ updated_at <= start_time

\* `if start_time and updated_at < start_time: continue` (line 151).
Filtered(updated_at) == start_time # NoTime /\ updated_at < start_time

\* Mutant of BatchFull: the batch flushed one document late.
BatchFull_Late(batch) == Len(batch) > batch_size

\* `if len(doc_batch) >= self.batch_size` (line 156).
BatchFull(batch) == Len(batch) >= batch_size

\* Mutant of ForTicket: the scan and the walk cut short at the first item
\* older than the bound.
ForTicket_StopsAtOlder ==
    /\ pc = "for"
    /\ idx <= Len(response.conversations)
    /\ LET updated_at == response.conversations[idx]
           batch == Append(doc_batch,
                           ticket_to_document(starting_after, idx, updated_at))
       IN IF Filtered(updated_at)
          THEN /\ pc' = "after"
               /\ UNCHANGED <<doc_batch, emitted>>
          ELSE /\ doc_batch' = batch
               /\ IF BatchFull(batch)
                  THEN /\ emitted' = Append(emitted, batch)
                       /\ pc' = "yield157"
                  ELSE UNCHANGED <<emitted, pc>>
    /\ idx' = idx + 1
    /\ UNCHANGED <<connector, checkpoint, start_time, listing,
                   starting_after, response, requests, raised, entry, run,
                   seed, prev, pulls, end_time, transform>>

\* One iteration of `for ticket in tickets` (lines 149-157).
ForTicket ==
    /\ pc = "for"
    /\ idx <= Len(response.conversations)
    /\ LET updated_at == response.conversations[idx]
           batch == Append(doc_batch,
                           ticket_to_document(starting_after, idx, updated_at))
       IN IF Filtered(updated_at)
          THEN UNCHANGED <<doc_batch, emitted, pc>>
          ELSE /\ doc_batch' = batch
               /\ IF BatchFull(batch)
                  THEN /\ emitted' = Append(emitted, batch)
                       /\ pc' = "yield157"
                  ELSE UNCHANGED <<emitted, pc>>
    /\ idx' = idx + 1
    /\ UNCHANGED <<connector, checkpoint, start_time, listing,
                   starting_after, response, requests, raised, entry, run,
                   seed, prev, pulls,
                   end_time, transform>>

\* Mutant of ResumeAfterYield: the accumulator not emptied after the yield.
ResumeAfterYield_KeepsBatch ==
    /\ pc = "yield157"
    /\ pulls' = pulls + 1
    /\ pc' = "for"
    /\ UNCHANGED <<connector, checkpoint, start_time, listing, frame,
                   requests, emitted, raised, entry, run, seed, prev,
                   end_time, transform>>

\* The consumer pulls again after the yield of line 157: line 158.
ResumeAfterYield ==
    /\ pc = "yield157"
    /\ pulls' = pulls + 1
    /\ doc_batch' = <<>>
    /\ pc' = "for"
    /\ UNCHANGED <<connector, checkpoint, start_time, listing,
                   starting_after, response, idx, requests, emitted, raised,
                   entry, run, seed, prev, end_time, transform>>

\* `next_page_info and "starting_after" in next_page_info` (line 162).
HasNextPage(next_page_info) == next_page_info.present /\ next_page_info.key

\* Mutant of NextPage: the loop left after the first page.
NextPage_StopsEarly ==
    /\ pc = "for"
    /\ idx > Len(response.conversations)
    /\ pc' = "after"
    /\ UNCHANGED <<connector, checkpoint, start_time, listing, frame,
                   requests, emitted, raised, entry, run, seed, prev, pulls,
                   end_time, transform>>

\* Mutant of NextPage: the checkpoint cleared when the listing is exhausted.
NextPage_ClearsAtEnd ==
    /\ pc = "for"
    /\ idx > Len(response.conversations)
    /\ IF HasNextPage(response.next)
       THEN /\ starting_after' = response.next.tok
            /\ tickets_cursor' = response.next.tok
            /\ pc' = "get"
       ELSE /\ pc' = "after"
            /\ tickets_cursor' = NoCursor
            /\ UNCHANGED starting_after
    /\ UNCHANGED <<connector, has_more, start_time, listing, response, idx,
                   doc_batch, requests, emitted, raised, entry, run, seed,
                   prev, pulls, end_time, transform>>

\* Mutant of NextPage: the cursor advanced but not written to the checkpoint.
NextPage_NotPersisted ==
    /\ pc = "for"
    /\ idx > Len(response.conversations)
    /\ IF HasNextPage(response.next)
       THEN /\ starting_after' = response.next.tok
            /\ pc' = "get"
       ELSE /\ pc' = "after"
            /\ UNCHANGED starting_after
    /\ UNCHANGED <<connector, checkpoint, start_time, listing, response, idx,
                   doc_batch, requests, emitted, raised, entry, run, seed,
                   prev, pulls, end_time, transform>>

\* The page is scanned: lines 161-166.
NextPage ==
    /\ pc = "for"
    /\ idx > Len(response.conversations)
    /\ IF HasNextPage(response.next)
       THEN /\ starting_after' = response.next.tok
            /\ tickets_cursor' = response.next.tok
            /\ pc' = "get"
       ELSE /\ pc' = "after"
            /\ UNCHANGED <<starting_after, tickets_cursor>>
    /\ UNCHANGED <<connector, has_more, start_time, listing, response, idx,
                   doc_batch, requests, emitted, raised, entry, run, seed,
                   prev, pulls, end_time, transform>>

\* Mutant of FlushLast: has_more cleared when the walk is over.
FlushLast_ClearsHasMore ==
    /\ pc = "after"
    /\ has_more' = FALSE
    /\ IF doc_batch # <<>>
       THEN /\ emitted' = Append(emitted, doc_batch)
            /\ pc' = "yield169"
            /\ UNCHANGED frame
       ELSE /\ pc' = "returned"
            /\ DropFrame
            /\ UNCHANGED emitted
    /\ UNCHANGED <<connector, tickets_cursor, start_time, listing,
                   requests, raised, entry, run, seed, prev, pulls,
                   end_time, transform>>

\* After the loop: lines 168-169, or the end of the generator.
FlushLast ==
    /\ pc = "after"
    /\ IF doc_batch # <<>>
       THEN /\ emitted' = Append(emitted, doc_batch)
            /\ pc' = "yield169"
            /\ UNCHANGED frame
       ELSE /\ pc' = "returned"
            /\ DropFrame
            /\ UNCHANGED emitted
    /\ UNCHANGED <<connector, checkpoint, start_time, listing,
                   requests, raised, entry, run, seed, prev, pulls,
                   end_time, transform>>

\* The consumer pulls after the yield of line 169: the generator ends.
ResumeAfterLast ==
    /\ pc = "yield169"
    /\ pulls' = pulls + 1
    /\ pc' = "returned"
    /\ DropFrame
    /\ UNCHANGED <<connector, checkpoint, start_time, listing,
                   requests, emitted, raised, entry, run, seed, prev,
                   end_time, transform>>

\* The consumer stops pulling: the generator, suspended at a yield, is
\* dropped and none of its code runs any more.
StopPulling ==
    /\ pc \in {"yield157", "yield169"}
    /\ pc' = "closed"
    /\ DropFrame
    /\ UNCHANGED <<connector, checkpoint, start_time, listing,
                   requests, emitted, raised, entry, run, seed, prev, pulls,
                   end_time, transform>>

\* ------------------------------------------------ checkpointed entry points
\* The class body binds load_from_checkpoint twice; the binding of line 190
\* replaces that of line 171, so a call raises at once.
load_from_checkpoint_raises == "NotImplementedError"

\* load_from_checkpoint(start, end, checkpoint), a first call or a resume.
\* Nothing of the arguments is read before the raise.
CheckpointedCall(name) ==
    /\ NoFrame
    /\ run \in {"none", "first"}
    /\ \E start \in Times, end \in Times :
        /\ start <= end
        /\ start_time' = start
        /\ end_time' = end
    /\ IF run = "none"
       THEN UNCHANGED <<run, prev>>
       ELSE /\ run' = "resume"
            /\ prev' = Ended
    /\ entry' = Call(name)
    /\ requests' = <<>>
    /\ emitted' = <<>>
    /\ pulls' = 0
    /\ raised' = load_from_checkpoint_raises
    /\ pc' = "raised"
    /\ DropFrame
    /\ UNCHANGED <<connector, checkpoint, listing, seed, transform>>

LoadFromCheckpoint == CheckpointedCall("load_from_checkpoint")

\* Line 204: delegates to self.load_from_checkpoint.
LoadFromCheckpointWithPermSync ==
    CheckpointedCall("load_from_checkpoint_with_perm_sync")

Next ==
    \/ LoadCredentials
    \/ FetchTickets
    \/ FirstPull
    \/ StopPulling
    \/ GetTicketsNoToken
    \/ GetTicketsHTTPError
    \/ GetTicketsOk
    \/ ForTicket
    \/ ResumeAfterYield
    \/ NextPage
    \/ FlushLast
    \/ ResumeAfterLast
    \/ LoadFromCheckpoint
    \/ LoadFromCheckpointWithPermSync

Spec == Init /\ [][Next]_vars

\* A step of a generator frame: its code between two yields, and the
\* consumer's pull that resumes it.  At each position one of them is enabled.
Pull ==
    \/ FirstPull
    \/ GetTicketsNoToken
    \/ GetTicketsHTTPError
    \/ GetTicketsOk
    \/ ForTicket
    \/ ResumeAfterYield
    \/ NextPage
    \/ FlushLast
    \/ ResumeAfterLast

\* FairSpec: the consumer keeps pulling, the provider answers every request
\* (with a page or an error), and the generator's code runs on.
FairSpec == Spec /\ WF_vars(Pull)

\* ============================================ _ticket_to_document in full
\* The walk above carries of a document only what it compares (id, time,
\* link).  Here the transformation of lines 49-111 is modelled field by
\* field, applied to raw conversations drawn from bounded sets.

\* A raw assignee field: the key missing, JSON null, a number, or a string.
AssigneeNumbers == {0, 7, 7843941}
RawAssignees ==
    {[kind |-> "missing", int |-> 0, str |-> ""],
     [kind |-> "null", int |-> 0, str |-> ""],
     [kind |-> "str", int |-> 0, str |-> "7"]}
    \cup {[kind |-> "int", int |-> n, str |-> ""] : n \in AssigneeNumbers}

\* A raw body: None (missing or null), "", markup without text, markup
\* with text.
Bodies == {"None", "", "<p></p>", "<p>a</p>", "<p>b</p>"}
RawParts == {[body |-> b] : b \in Bodies}
\* ticket["conversation_parts"]: the key missing, or its inner list.
RawConversationParts ==
    {[present |-> FALSE, conversation_parts |-> <<>>]}
    \cup {[present |-> TRUE, conversation_parts |-> ps] :
            ps \in SeqsUpTo(RawParts, MaxParts)}
RawStates == {"None", "open"}
RawTags == {<<>>, <<[name |-> "vip"]>>}

RawTickets ==
    [id : {"c1"},
     title : {"None"},
     created_at : {1},
     updated_at : {2},
     state : RawStates,
     priority : {"missing"},
     admin_assignee_id : RawAssignees,
     team_assignee_id : RawAssignees,
     tags : RawTags,
     source : [type : {"conversation"},
               body : Bodies,
               author : {[name |-> "Ann", email |-> "ann@example.org"]}],
     conversation_parts : RawConversationParts]

\* Values of the metadata mapping, tagged with their Python type.
NoneVal == [type |-> "none", str |-> "", int |-> 0, list |-> <<>>]
StrVal(s) == [type |-> "str", str |-> s, int |-> 0, list |-> <<>>]
ListVal(l) == [type |-> "list", str |-> "", int |-> 0, list |-> l]

Digit(d) ==
    CASE d = 0 -> "0" [] d = 1 -> "1" [] d = 2 -> "2" [] d = 3 -> "3"
      [] d = 4 -> "4" [] d = 5 -> "5" [] d = 6 -> "6" [] d = 7 -> "7"
      [] d = 8 -> "8" [] d = 9 -> "9"

\* str(n) of a non-negative int: its decimal digits.
RECURSIVE Str(_)
Str(n) == IF n < 10 THEN Digit(n) ELSE Str(n \div 10) \o Digit(n % 10)

\* str(x) of a raw value that is not None: a string is itself.
str(raw) == IF raw.kind = "int" THEN Str(raw.int) ELSE raw.str

\* Mutant of AssigneeValue: the raw value is passed on as it came.
AssigneeValue_Raw(raw) ==
    IF raw.kind \in {"missing", "null"} THEN NoneVal
    ELSE IF raw.kind = "int"
         THEN [type |-> "int", str |-> "", int |-> raw.int, list |-> <<>>]
         ELSE StrVal(raw.str)

\* `str(assignee_id) if assignee_id is not None else None` (lines 90-93)
\* with assignee_id = ticket.get(...) (lines 82-83).
AssigneeValue(raw) ==
    IF raw.kind \in {"missing", "null"} THEN NoneVal ELSE StrVal(str(raw))

\* datetime.fromtimestamp(t, tz=timezone.utc).isoformat() for t < 10.
isoformat(t) == "1970-01-01T00:00:0" \o Digit(t) \o "+00:00"

\* parse_html_page_basic: the text the markup holds.
parse_html_page_basic(body) ==
    CASE body = "<p></p>" -> ""
      [] body = "<p>a</p>" -> "a"
      [] body = "<p>b</p>" -> "b"

\* `if x.get("body")`: neither None nor "".
Truthy(body) == body \notin {"None", ""}

\* Mutant of SectionOf: every message part gets a section.
SectionOf_Always(body) ==
    <<[text |-> IF Truthy(body) THEN parse_html_page_basic(body) ELSE ""]>>

\* Lines 66-69 and 76-79: the sections one message body adds.
SectionOf(body) ==
    IF Truthy(body)
    THEN LET cleaned_text == parse_html_page_basic(body)
         IN  IF cleaned_text # "" THEN <<[text |-> cleaned_text]>> ELSE <<>>
    ELSE <<>>

\* ticket.get("conversation_parts", {}).get("conversation_parts", [])
conversation_parts(t) ==
    IF t.conversation_parts.present
    THEN t.conversation_parts.conversation_parts
    ELSE <<>>

\* `for part in conversation_parts` (lines 74-79).
RECURSIVE PartSections(_)
PartSections(parts) ==
    IF parts = <<>> THEN <<>>
    ELSE SectionOf(Head(parts).body) \o PartSections(Tail(parts))

\* Lines 64-79.
Sections(t) == SectionOf(t.source.body) \o PartSections(conversation_parts(t))

\* Lines 57-61.
PrimaryOwners(t) ==
    IF t.source.author.email # "None"
    THEN <<[display_name |-> t.source.author.name,
            email |-> t.source.author.email]>>
    ELSE <<>>

\* The dict of lines 85-97.
RawMetadata(t) ==
    [created_at |-> StrVal(isoformat(t.created_at)),
     state |-> IF t.state = "None" THEN NoneVal ELSE StrVal(t.state),
     assignee_id |-> AssigneeValue(t.admin_assignee_id),
     team_assignee_id |-> AssigneeValue(t.team_assignee_id),
     tags |-> ListVal([i \in 1..Len(t.tags) |-> t.tags[i].name]),
     priority |-> IF t.priority = "missing" THEN StrVal("not_prioritized")
                  ELSE StrVal(t.priority),
     source_type |-> StrVal(t.source.type)]

\* `{k: v for k, v in metadata.items() if v is not None and v != []}`
Metadata(t) ==
    LET metadata == RawMetadata(t)
        kept == {k \in DOMAIN metadata :
                    /\ metadata[k].type # "none"
                    /\ ~(metadata[k].type = "list" /\ metadata[k].list = <<>>)}
    IN  [k \in kept |-> metadata[k]]

\* The Document of lines 99-111.
Document(t) ==
    [id |-> "intercom_" \o t.id,
     semantic_identifier |-> IF t.title \notin {"None", ""} THEN t.title
                             ELSE "Conversation " \o t.id,
     link |-> get_source_link(NoCursor, 1),
     doc_updated_at |-> t.updated_at,
     primary_owners |-> PrimaryOwners(t),
     sections |-> Sections(t),
     metadata |-> Metadata(t)]

\* A connector as constructed, and a raw conversation from the provider.
DocInit ==
    /\ intercom_api_token = NoToken
    /\ workspace_id \in {"None", "ws"}
    /\ batch_size = 1
    /\ tickets_cursor = NoCursor
    /\ has_more = TRUE
    /\ start_time = NoTime
    /\ listing = [c \in Cursors |-> Unfetched]
    /\ pc = "idle"
    /\ starting_after = NoCursor
    /\ response = Unfetched
    /\ idx = 1
    /\ doc_batch = <<>>
    /\ requests = <<>>
    /\ emitted = <<>>
    /\ raised = "none"
    /\ entry = [name |-> "none", token |-> "-", workspace |-> "-"]
    /\ run = "none"
    /\ seed = NoCursor
    /\ prev = NoPrev
    /\ pulls = 0
    /\ end_time = NoTime
    /\ ticket \in RawTickets
    /\ document = NoDocument

\* self._ticket_to_document(ticket)
TicketToDocument ==
    /\ document = NoDocument
    /\ document' = Document(ticket)
    /\ entry' = Call("_ticket_to_document")
    /\ UNCHANGED <<connector, checkpoint, start_time, listing, pc, frame,
                   requests, emitted, raised, run, seed, prev, pulls,
                   end_time, ticket>>

DocNext == TicketToDocument

DocSpec == DocInit /\ [][DocNext]_vars

\* ======================================================= checked properties
Range(s) == {s[i] : i \in 1..Len(s)}

RECURSIVE Flatten(_)
Flatten(batches) ==
    IF batches = <<>> THEN <<>> ELSE Head(batches) \o Flatten(Tail(batches))

\* The pages of the listing from cursor c on, as far as the provider has
\* shown them, in listing order.
RECURSIVE Chain(_)
Chain(c) ==
    IF ~listing[c].fetched THEN <<>>
    ELSE IF listing[c].next.present /\ listing[c].next.key
         THEN <<c>> \o Chain(listing[c].next.tok)
         ELSE <<c>>

\* The listing from c on has been shown up to its last page.
ChainComplete(c) ==
    /\ Chain(c) # <<>>
    /\ LET last == listing[Chain(c)[Len(Chain(c))]].next
       IN ~(last.present /\ last.key)

\* An item counts for the poll: no bound, or update-time >= the bound.
InWindow(updated_at) == start_time = NoTime \/ updated_at >= start_time

\* The items of page c that count, as (cursor, position) pairs.
WindowItems(c) ==
    {<<c, i>> : i \in {j \in 1..Len(listing[c].conversations) :
                        InWindow(listing[c].conversations[j])}}

WindowItemsOf(cs) == UNION {WindowItems(c) : c \in Range(cs)}

\* The same items as documents, in page order.
RECURSIVE WindowDocsFrom(_, _)
WindowDocsFrom(c, i) ==
    IF i > Len(listing[c].conversations) THEN <<>>
    ELSE (IF InWindow(listing[c].conversations[i])
          THEN <<[id |-> <<c, i>>,
                  doc_updated_at |-> listing[c].conversations[i],
                  link |-> IF workspace_id = "None" THEN "None" ELSE "link"]>>
          ELSE <<>>) \o WindowDocsFrom(c, i + 1)

RECURSIVE WindowDocsOf(_)
WindowDocsOf(cs) ==
    IF cs = <<>> THEN <<>>
    ELSE WindowDocsFrom(Head(cs), 1) \o WindowDocsOf(Tail(cs))

EmittedIds == {d.id : d \in Range(Flatten(emitted))}

Fetching == entry.name = "_fetch_tickets"

\* C1: a complete run of _fetch_tickets has walked the listing to its last
\* page and has emitted, over all batches, exactly the items whose
\* update-time is >= the bound (all items without a bound); the number of
\* emitted documents is the number of those items.
C1_EmitsExactlyWindowItems ==
    (Fetching /\ pc = "returned") =>
        LET docs == Flatten(emitted)
            items == WindowItemsOf(Chain(seed))
        IN /\ ChainComplete(seed)
           /\ {d.id : d \in Range(docs)} = items
           /\ \A d \in Range(docs) : InWindow(d.doc_updated_at)
           /\ Len(docs) = Cardinality(items)

\* C1 witness: a complete two-page run with a bound that has dropped an
\* older item and kept an item as old as the bound.
C1_Witness ==
    /\ Fetching /\ pc = "returned"
    /\ Len(requests) = 2
    /\ start_time # NoTime
    /\ \E c \in Range(requests) : \E i \in 1..Len(listing[c].conversations) :
        listing[c].conversations[i] < start_time
    /\ \E d \in Range(Flatten(emitted)) : d.doc_updated_at = start_time

\* C2: the batches of a run, concatenated, list the items that count in
\* discovery order, without a repeated document; the partial batch left
\* after the last page is emitted by the yield of line 169.
C2_DiscoveryOrderNoDuplicates ==
    /\ (Fetching /\ pc = "returned") =>
            Flatten(emitted) = WindowDocsOf(Chain(seed))
    /\ (Fetching /\ pc \notin {"idle", "raised"}) =>
            LET docs == Flatten(emitted)
            IN \A i, j \in 1..Len(docs) : docs[i].id = docs[j].id => i = j
    /\ (Fetching /\ pc = "yield169") =>
            /\ doc_batch # <<>>
            /\ emitted[Len(emitted)] = doc_batch

\* C2 witness: a complete run over two pages whose last batch is partial
\* and holds an item of the second page after a full batch was emitted.
C2_Witness ==
    /\ Fetching /\ pc = "returned"
    /\ Len(requests) = 2
    /\ Len(emitted) = 2
    /\ Len(emitted[2]) < batch_size
    /\ emitted[2][1].id[1] = requests[2]

\* C3: every emitted batch is non-empty and has at most batch_size
\* documents; all batches but the one of line 169 have exactly batch_size,
\* and the accumulator never stays at batch_size without being emitted.
C3_BatchSizes ==
    Fetching =>
        /\ \A i \in 1..Len(emitted) :
            /\ Len(emitted[i]) >= 1
            /\ Len(emitted[i]) <= batch_size
            /\ (i < Len(emitted) \/ pc \notin {"yield169", "returned", "closed"})
                    => Len(emitted[i]) = batch_size
        /\ pc \in {"get", "for", "after"} => Len(doc_batch) < batch_size
        /\ pc = "yield157" => /\ Len(doc_batch) = batch_size
                              /\ emitted[Len(emitted)] = doc_batch

\* C3 witness: batch_size = 1 and a single page of three items, emitted as
\* three batches of one document in page order.
C3_Witness ==
    /\ Fetching /\ pc = "returned"
    /\ batch_size = 1
    /\ Len(requests) = 1
    /\ Len(emitted) = 3
    /\ \A i \in 1..3 : Len(emitted[i]) = 1 /\ emitted[i][1].id = <<seed, i>>

LastRequest == requests[Len(requests)]

\* C4: requests follow the tokens.  The first request carries the seed
\* cursor, every later one the token of the response before it, the run
\* returns only after a response without a token (and requests nothing
\* after it), and a run that is pulled to its end terminates (the consumer
\* that stops pulling leaves it at "closed").
C4_RequestsFollowTokens ==
    Fetching =>
        /\ requests # <<>> => requests[1] = seed
        /\ \A i \in 2..Len(requests) :
            LET before == listing[requests[i - 1]]
            IN /\ before.fetched
               /\ before.next.present /\ before.next.key
               /\ before.next.tok = requests[i]
        /\ pc \in {"after", "yield169", "returned"} =>
            /\ requests # <<>>
            /\ listing[LastRequest].fetched
            /\ ~(listing[LastRequest].next.present /\ listing[LastRequest].next.key)

C4_SequentialWalkTerminates ==
    /\ []C4_RequestsFollowTokens
    /\ (Fetching /\ pc = "get") ~> (pc \in {"returned", "raised", "closed"})

\* C4 witness: a run that returned after two requests, the second carrying
\* the token of the first response.
C4_Witness ==
    /\ Fetching /\ pc = "returned"
    /\ Len(requests) = 2
    /\ requests[2] = listing[requests[1]].next.tok
    /\ requests[2] # seed

\* C5: after a run ended by a transport error and a resume from the
\* checkpoint that ran to completion, every item that counts is in a batch
\* of the first run or of the resume.
C5_AtLeastOnceAcrossResume ==
    (/\ Fetching /\ run = "resume" /\ pc = "returned"
     /\ prev.pc = "raised" /\ prev.raised = "HTTPError") =>
        WindowItemsOf(Chain(prev.seed))
            \subseteq ({d.id : d \in Range(Flatten(prev.emitted))} \cup EmittedIds)

\* C6: checkpoint.tickets_cursor equals the local cursor throughout a run:
\* while a page is scanned and after the last page it is the cursor that the
\* latest request carried; before a request it is the seed or the token of
\* the page just scanned.
C6_CursorWrittenAtPageTransitions ==
    Fetching =>
        /\ pc \in {"get", "for", "yield157", "after", "yield169"} =>
                tickets_cursor = starting_after
        /\ pc \in {"for", "yield157", "after", "yield169", "returned"} =>
                tickets_cursor = LastRequest
        /\ pc = "get" =>
                tickets_cursor = IF requests = <<>> THEN seed
                                 ELSE listing[LastRequest].next.tok

\* C6 witness: the second page is being scanned with the checkpoint holding
\* the token of the first page, a batch just yielded.
C6_Witness ==
    /\ Fetching /\ pc = "yield157"
    /\ Len(requests) = 2
    /\ tickets_cursor = listing[requests[1]].next.tok
    /\ tickets_cursor # seed

\* C7: a resume after a complete run over n >= 2 pages starts from the
\* cursor persisted after page n - 1, requests page n only and emits items
\* of page n only (all of them that count, once it has returned).
C7_ResumeRefetchesOnlyLastPage ==
    (/\ Fetching /\ run = "resume" /\ pc # "created"
     /\ prev.pc = "returned" /\ Len(prev.requests) >= 2) =>
        LET n == Len(prev.requests)
            last == prev.requests[n]
        IN /\ seed = listing[prev.requests[n - 1]].next.tok
           /\ seed = last
           /\ Len(requests) <= 1
           /\ \A i \in 1..Len(requests) : requests[i] = last
           /\ \A d \in Range(Flatten(emitted)) : d.id[1] = last
           /\ pc = "returned" => EmittedIds = WindowItems(last)

\* C7 witness: the first run emitted items of the first page, the resume has
\* returned after emitting items of the last page.
C7_Witness ==
    /\ Fetching /\ run = "resume" /\ pc = "returned"
    /\ prev.pc = "returned" /\ Len(prev.requests) = 2
    /\ \E d \in Range(Flatten(prev.emitted)) : d.id[1] = prev.requests[1]
    /\ emitted # <<>>

\* C8: a call of load_from_checkpoint, or of
\* load_from_checkpoint_with_perm_sync, runs the pagination walk: it ends
\* by returning the checkpoint, or with an error of the walk.
C8_EntryPointsRunTheWalk ==
    entry.name \in {"load_from_checkpoint", "load_from_checkpoint_with_perm_sync"} =>
        /\ pc # "idle"
        /\ pc = "raised" =>
            raised \in {"HTTPError", "ConnectorMissingCredentialError"}

\* C9: a transport error ends the run.  The failing step emits nothing and
\* leaves the checkpoint alone; afterwards the run is over, with the
\* checkpoint holding the cursor that the failed request carried, and
\* nothing is requested or emitted in that run any more.
C9_HTTPErrorEndsRun ==
    /\ [](raised = "HTTPError" =>
            /\ Fetching /\ pc = "raised"
            /\ requests # <<>>
            /\ tickets_cursor = LastRequest)
    /\ [][(raised' = "HTTPError" /\ raised # "HTTPError") =>
            /\ emitted' = emitted
            /\ tickets_cursor' = tickets_cursor
            /\ Len(requests') = Len(requests) + 1]_vars
    /\ [][(raised = "HTTPError" /\ run' = run) =>
            /\ requests' = requests
            /\ emitted' = emitted
            /\ tickets_cursor' = tickets_cursor]_vars

\* C9 witness: the request for the second page failed after a batch had
\* been emitted.
C9_Witness ==
    /\ Fetching /\ pc = "raised" /\ raised = "HTTPError"
    /\ Len(requests) = 2
    /\ emitted # <<>>
    /\ tickets_cursor # seed

\* C10: load_credentials raises the missing-credential error for a mapping
\* whose token is missing, empty or not a string; a fetch without a loaded
\* token ends with that error, no request sent, no batch emitted and the
\* checkpoint cursor as it was.
C10_MissingTokenFailsBeforeRequest ==
    /\ (entry.name = "load_credentials"
            /\ entry.token \in {"missing", "empty", "nonstring"}) =>
        raised = "ConnectorMissingCredentialError"
    /\ (Fetching /\ intercom_api_token = NoToken) =>
        /\ pc \in {"created", "get", "raised"}
        /\ pc = "raised" => raised = "ConnectorMissingCredentialError"
        /\ requests = <<>>
        /\ emitted = <<>>
        /\ tickets_cursor = seed

\* C10 witness: a fetch ended by the missing-credential error.
C10_Witness ==
    /\ Fetching /\ pc = "raised"
    /\ intercom_api_token = NoToken
    /\ raised = "ConnectorMissingCredentialError"
    /\ requests = <<>>

\* C11: a mapping with a token and no workspace id is accepted:
\* load_credentials raises nothing, and the walk that follows runs and
\* produces documents without a link.
C11_MissingWorkspaceIsAccepted ==
    /\ (/\ entry.name = "load_credentials"
        /\ entry.token = "tok" /\ entry.workspace = "None") =>
            raised = "none"
    /\ (Fetching /\ intercom_api_token # NoToken /\ workspace_id = "None") =>
        /\ pc = "raised" => raised = "HTTPError"
        /\ \A d \in Range(Flatten(emitted)) : d.link = "None"

\* The decimal form of the numbers a raw assignee field takes here.
DecimalForm(n) ==
    CASE n = 0 -> "0" [] n = 7 -> "7" [] n = 7843941 -> "7843941"

\* The metadata entry `key` made from the raw field `raw`: no key for a
\* missing or null field, else a string, the decimal form of a number.
AssigneeEntryOk(key, raw) ==
    IF raw.kind \in {"missing", "null"}
    THEN key \notin DOMAIN document.metadata
    ELSE /\ key \in DOMAIN document.metadata
         /\ document.metadata[key].type = "str"
         /\ raw.kind = "int" =>
                document.metadata[key].str = DecimalForm(raw.int)

\* C12: in every document of _ticket_to_document the metadata entries
\* assignee_id and team_assignee_id are absent or a string: a number n
\* (0 included) gives the string form of n, a missing or null field gives
\* no key, a raw number never appears.
C12_AssigneeIdsAreStrings ==
    document.id # "none" =>
        /\ AssigneeEntryOk("assignee_id", ticket.admin_assignee_id)
        /\ AssigneeEntryOk("team_assignee_id", ticket.team_assignee_id)

\* admin_assignee_id = 0 became "0", and the null team_assignee_id left no
\* key.
C12_Witness ==
    /\ document.id # "none"
    /\ ticket.admin_assignee_id.kind = "int"
    /\ ticket.admin_assignee_id.int = 0
    /\ ticket.team_assignee_id.kind = "null"
    /\ "assignee_id" \in DOMAIN document.metadata
    /\ document.metadata["assignee_id"].type = "str"
    /\ document.metadata["assignee_id"].str = "0"
    /\ "team_assignee_id" \notin DOMAIN document.metadata

\* The in-window items scanned so far: all of the pages requested before
\* the latest one, and of the latest page the positions before idx.
ScannedItems ==
    WindowItemsOf(SubSeq(requests, 1, Len(requests) - 1))
        \cup {it \in WindowItems(LastRequest) : it[2] < idx}

\* C13: when the consumer holds a batch just yielded, every in-window item
\* scanned so far is in an emitted batch, the accumulator is that batch, and
\* the checkpoint holds the cursor of the page being scanned; a run started
\* from it after the consumer stopped requests that page again and, with
\* the batches already delivered, leaves no item out.
C13_StopAfterBatchIsSafe ==
    /\ (Fetching /\ pc \in {"yield157", "yield169"}) =>
        /\ EmittedIds = ScannedItems
        /\ emitted[Len(emitted)] = doc_batch
        /\ tickets_cursor = LastRequest
    /\ (Fetching /\ run = "resume" /\ prev.pc = "closed" /\ pc # "created") =>
        /\ seed = prev.requests[Len(prev.requests)]
        /\ requests # <<>> => requests[1] = seed
        /\ pc = "returned" =>
            WindowItemsOf(Chain(prev.seed)) \subseteq
                ({d.id : d \in Range(Flatten(prev.emitted))} \cup EmittedIds)

\* C13 witness: the consumer stopped after a batch yielded in the middle of
\* the second page; the resume has fetched that page again and returned.
C13_Witness ==
    /\ Fetching /\ run = "resume" /\ pc = "returned"
    /\ prev.pc = "closed"
    /\ Len(prev.requests) = 2
    /\ seed = prev.requests[2]
    /\ Cardinality({d.id : d \in Range(Flatten(prev.emitted))})
            < Cardinality(WindowItemsOf(Chain(prev.seed)))
    /\ emitted # <<>>

\* C14: the walk does not depend on the filter or on batch_size.  The
\* requests of a complete run are the pages of the listing from the seed on
\* and the final checkpoint cursor is the cursor of the last page, both
\* fixed by the listing alone; an older item is passed over without being
\* added or counted, and the scan goes on with the next item.
C14_FilterKeepsTheWalk ==
    /\ []((Fetching /\ pc = "returned") =>
            /\ ChainComplete(seed)
            /\ requests = Chain(seed)
            /\ tickets_cursor = Chain(seed)[Len(Chain(seed))])
    /\ [][(/\ pc = "for" /\ idx <= Len(response.conversations)
           /\ start_time # NoTime
           /\ response.conversations[idx] < start_time) =>
            /\ pc' = "for"
            /\ idx' = idx + 1
            /\ response' = response
            /\ doc_batch' = doc_batch
            /\ emitted' = emitted
            /\ requests' = requests
            /\ tickets_cursor' = tickets_cursor]_vars

\* C14 witness: a complete run with a bound over two pages, where the first
\* item of the first page is older than the bound and an item of the second
\* page has been emitted.
C14_Witness ==
    /\ Fetching /\ pc = "returned"
    /\ start_time # NoTime
    /\ Len(requests) = 2
    /\ listing[requests[1]].conversations # <<>>
    /\ listing[requests[1]].conversations[1] < start_time
    /\ \E d \in Range(Flatten(emitted)) : d.id[1] = requests[2]

\* C15: requests are made on demand.  A generator that was not pulled has
\* sent nothing; a request is sent only while the generator runs on behalf
\* of a pull that came after every batch emitted so far, one request per
\* step.
C15_RequestsOnDemand ==
    /\ [](Fetching =>
            /\ pc = "created" => (requests = <<>> /\ pulls = 0)
            /\ requests # <<>> => pulls >= 1
            /\ pc \in {"get", "for", "after"} => pulls = Len(emitted) + 1
            /\ pc \in {"yield157", "yield169"} => pulls = Len(emitted))
    /\ [][(requests' # requests /\ requests' # <<>>) =>
            /\ pc = "get"
            /\ pulls >= 1
            /\ pulls' = pulls
            /\ pulls = Len(emitted) + 1
            /\ requests' = Append(requests, starting_after)]_vars

\* C15 witness: the second page is about to be requested after a batch
\* completed on the first page was received and the consumer pulled again.
C15_Witness ==
    /\ Fetching /\ pc = "get"
    /\ Len(requests) = 1
    /\ Len(emitted) = 1
    /\ pulls = 2

\* The bodies of a raw conversation's message parts: the source message,
\* then the conversation parts in their original order.
MessageBodies ==
    LET parts == conversation_parts(ticket)
    IN  <<ticket.source.body>> \o [i \in 1..Len(parts) |-> parts[i].body]

\* A body that holds text, and the text it holds.
HasText(body) == body \in {"<p>a</p>", "<p>b</p>"}
TextOf(body) == IF body = "<p>a</p>" THEN "a" ELSE "b"

\* C16 as stated: the document has one section per message part, so
\* 1 + the number of conversation parts.
C16_OneSectionPerPart ==
    document.id # "none" =>
        Len(document.sections) = 1 + Len(conversation_parts(ticket))

\* C16, amended: the sections are the texts of the message parts that hold
\* text (source message first, then the conversation parts in order); a
\* part whose body is missing, empty or without text gets no section, so
\* there are at most 1 + number of conversation parts sections, and that
\* many only when every part holds text.
C16_SectionsAreTheNonEmptyParts ==
    document.id # "none" =>
        LET texts == SelectSeq(MessageBodies, HasText)
        IN  /\ Len(document.sections) = Len(texts)
            /\ \A i \in 1..Len(texts) :
                document.sections[i].text = TextOf(texts[i])
            /\ Len(document.sections) <= 1 + Len(conversation_parts(ticket))
            /\ Len(document.sections) = 1 + Len(conversation_parts(ticket))
                <=> \A i \in 1..Len(MessageBodies) : HasText(MessageBodies[i])

\* A source message and two conversation parts, the first of them empty:
\* two sections, in order.
C16_Witness ==
    /\ document.id # "none"
    /\ ticket.source.body = "<p>a</p>"
    /\ Len(conversation_parts(ticket)) = 2
    /\ conversation_parts(ticket)[1].body = ""
    /\ conversation_parts(ticket)[2].body = "<p>b</p>"
    /\ document.sections = <<[text |-> "a"], [text |-> "b"]>>

C18_EndIsNeverApplied ==
    (/\ entry.name \in {"load_from_checkpoint",
                        "load_from_checkpoint_with_perm_sync"}
     /\ pc \in {"returned", "raised"}) =>
        \A it \in WindowItemsOf(Chain(tickets_cursor)) :
            listing[it[1]].conversations[it[2]] > end_time => it \in EmittedIds

\* C19: load_credentials with a token and no workspace id raises after it
\* has stored the token and overwritten workspace_id with the missing
\* value; a fetch after it passes the credential check (it can only end
\* with a transport error, after a request) and its documents have no link.
C19_LoadCredentialsNotAtomic ==
    /\ (/\ entry.name = "load_credentials"
        /\ entry.token = "tok" /\ entry.workspace = "None") =>
            /\ raised = "ConnectorMissingCredentialError"
            /\ intercom_api_token = "tok"
            /\ workspace_id = "None"
    /\ (Fetching /\ intercom_api_token # NoToken /\ workspace_id = "None") =>
        /\ pc = "raised" => (raised = "HTTPError" /\ requests # <<>>)
        /\ pc \notin {"created", "get"} => requests # <<>>
        /\ \A d \in Range(Flatten(emitted)) : d.link = "None"

\* C19 witness: a token is loaded, the workspace id is none, and a run has
\* returned with a document that has no link.
C19_Witness ==
    /\ Fetching /\ pc = "returned"
    /\ intercom_api_token = "tok"
    /\ workspace_id = "None"
    /\ \E d \in Range(Flatten(emitted)) : d.link = "None"

====
